---- MODULE Spec2Model ----
(***************************************************************************)
(* Model of the huntsAPI integration service: the Express routes of the    *)
(* server (register-app, hunting-queries, hunts, link-query,               *)
(* bulk-create-hunt, purge, hunting-queries/upload) and the directory      *)
(* registration helpers of app-registration.js.  The remote services (the  *)
(* identity directory, the SIEM workspace) and the local uploads directory *)
(* are the state; every remote or file-system call may succeed or fail.    *)
(***************************************************************************)
EXTENDS Integers, Sequences, FiniteSets, TLC

VARIABLES
  applications,   \* directory: sequence of Application objects, objectId = index
  reg,            \* the POST /register-app request in flight
  perm,           \* direct addApiPermissions calls, one record per caller
  savedSearches,  \* workspace: set of SavedSearch resources
  hunts,          \* workspace: set of Hunt resources
  relations,      \* workspace: set of Relation resources
  nextId,         \* next resource name the workspace hands out
  bulk,           \* the POST /bulk-create-hunt request in flight
  lastResp,       \* last response sent by the single-step workspace routes
  uploads,        \* files present in the uploads directory
  nextFile,       \* next temporary file name multer generates
  up              \* the POST /hunting-queries/upload request in flight

vars == <<applications, reg, perm, savedSearches, hunts, relations, nextId,
          bulk, lastResp, uploads, nextFile, up>>

dirVars == <<applications, reg, perm>>
wsVars == <<savedSearches, hunts, relations, nextId, bulk, lastResp>>
upVars == <<uploads, nextFile, up>>

\* ---------------------------------------------------------------- bounds
MaxApps == 3        \* applications the register-app route may create
MaxEntries == 2     \* entries a pre-existing Application may hold
NumCallers == 2     \* direct addApiPermissions callers
MaxResources == 3   \* resources the workspace creates
MaxUploads == 2     \* files the upload route stages

\* ------------------------------------------------------------- helpers
Range(s) == {s[i] : i \in 1..Len(s)}

IsPrefix(s, t) == Len(s) <= Len(t) /\ \A i \in 1..Len(s) : s[i] = t[i]

\* An optional value is a sequence of length 0 (undefined) or 1.
None == <<>>
Some(v) == <<v>>

\* JavaScript truthiness of an optional string: undefined and "" are falsy.
Truthy(opt) == opt # None /\ opt[1] # ""

\* =================================================================
\* Directory: app-registration.js
\* =================================================================

\* requiredResourceAccess entries: resourceAppId / scope id pairs.
GraphUserRead == [resourceAppId |-> "00000003-0000-0000-c000-000000000000",
                  id |-> "e1fe6dd8-ba31-4d61-89e7-88639da4683d"]
ManagementScope == [resourceAppId |-> "797f4846-ba00-4fd7-ba43-dac1f8f63013",
                    id |-> "41094075-9dad-400e-a0bd-54e686782033"]
OtherScope == [resourceAppId |-> "other-api", id |-> "other-scope"]

Entries == {GraphUserRead, ManagementScope, OtherScope}

\* registerApplication's fixed requiredResourceAccess.
BaselineAccess == <<GraphUserRead>>

\* addSentinelPermissions' managementPermissions, passed as [managementPermissions].
managementPermissions == <<ManagementScope>>

DEFAULT_APP_NAME == "Sentinel TH Integration App"

\* appName || DEFAULT_APP_NAME
effectiveAppName(appName) == IF Truthy(appName) THEN appName[1] ELSE DEFAULT_APP_NAME

\* The Application object registerApplication posts.
appRegistration(appName) ==
  [displayName |-> appName, requiredResourceAccess |-> Some(BaselineAccess)]

\* A mutant of MergedAccess: the PATCH body holds the new permissions alone.
MergedAccessOverwrite(app, permissions) == permissions

\* [...(app.requiredResourceAccess || []), ...permissions]
MergedAccess(app, permissions) ==
  (IF app.requiredResourceAccess = None THEN <<>> ELSE app.requiredResourceAccess[1])
    \o permissions

\* PATCH /applications/{id} {requiredResourceAccess}: replaces that property.
Patched(apps, objectId, requiredResourceAccess) ==
  [apps EXCEPT ![objectId].requiredResourceAccess = Some(requiredResourceAccess)]

\* ----------------------------------------------------------------
\* addApiPermissions called directly, by several callers, on one Application
\* ----------------------------------------------------------------
Callers == 1..NumCallers

\* Caller 1 is addSentinelPermissions; the others pass another entry.
PermissionsOf(c) == IF c = 1 THEN managementPermissions ELSE <<OtherScope>>

SeqsUpTo(S, n) == UNION {[1..k -> S] : k \in 0..n}

\* overlapped: the call read the Application while another call had read it
\* and not yet written (history).
IdlePerm == [pc |-> "get", app |-> None, written |-> None, overlapped |-> FALSE]

InFlight(c) == perm[c].pc = "patch"

\* const app = await client.api(...).get()
PermGet(c) ==
  /\ perm[c].pc = "get"
  /\ \E ok \in BOOLEAN :
       perm' = [perm EXCEPT ![c] =
                  IF ok THEN [@ EXCEPT !.pc = "patch", !.app = Some(applications[1]),
                                       !.overlapped = \E d \in Callers \ {c} : InFlight(d)]
                        ELSE [@ EXCEPT !.pc = "failed"]]
  /\ UNCHANGED <<applications, reg, wsVars, upVars>>

\* await client.api(...).patch({ requiredResourceAccess }); return true
PermPatch(c) ==
  /\ perm[c].pc = "patch"
  /\ LET requiredResourceAccess == MergedAccess(perm[c].app[1], PermissionsOf(c)) IN
     \E ok \in BOOLEAN :
       IF ok
       THEN /\ applications' = Patched(applications, 1, requiredResourceAccess)
            /\ perm' = [perm EXCEPT ![c] = [@ EXCEPT !.pc = "done",
                                               !.written = Some(requiredResourceAccess)]]
       ELSE /\ perm' = [perm EXCEPT ![c] = [@ EXCEPT !.pc = "failed"]]
            /\ UNCHANGED applications
  /\ UNCHANGED <<reg, wsVars, upVars>>

\* ----------------------------------------------------------------
\* POST /api/register-app
\* ----------------------------------------------------------------
AppNames == {None, Some(""), Some("my app")}

IdleReg == [pc |-> "idle", objectId |-> 0, app |-> None, calls |-> <<>>, status |-> 0]

\* A mutant of RegError: the catch block swallows the error and answers 201.
RegErrorSwallowed(r) == [r EXCEPT !.pc = "responded", !.status = 201]

\* sendErrorResponse(res, error, 500, context)
RegError(r) == [r EXCEPT !.pc = "responded", !.status = 500]

\* registerApplication(effectiveAppName, redirectUris || [])
RegRegister ==
  /\ reg.pc \in {"idle", "responded"}
  /\ Len(applications) < MaxApps
  /\ \E appName \in AppNames, ok \in BOOLEAN :
       LET r == [IdleReg EXCEPT !.calls = <<"POST">>] IN
       IF ok
       THEN /\ applications' = Append(applications, appRegistration(effectiveAppName(appName)))
            /\ reg' = [r EXCEPT !.pc = "get", !.objectId = Len(applications) + 1]
       ELSE /\ reg' = RegError(r)
            /\ UNCHANGED applications
  /\ UNCHANGED <<perm, wsVars, upVars>>

\* addSentinelPermissions(app.id): the GET of addApiPermissions
RegGet ==
  /\ reg.pc = "get"
  /\ \E ok \in BOOLEAN :
       LET r == [reg EXCEPT !.calls = Append(@, "GET")] IN
       reg' = IF ok THEN [r EXCEPT !.pc = "patch", !.app = Some(applications[reg.objectId])]
                    ELSE RegError(r)
  /\ UNCHANGED <<applications, perm, wsVars, upVars>>

\* addSentinelPermissions(app.id): the PATCH of addApiPermissions, then res.status(201)
RegPatch ==
  /\ reg.pc = "patch"
  /\ LET r == [reg EXCEPT !.calls = Append(@, "PATCH")] IN
     \E ok \in BOOLEAN :
       IF ok
       THEN /\ applications' = Patched(applications, reg.objectId,
                                       MergedAccess(reg.app[1], managementPermissions))
            /\ reg' = [r EXCEPT !.pc = "responded", !.status = 201]
       ELSE /\ reg' = RegError(r)
            /\ UNCHANGED applications
  /\ UNCHANGED <<perm, wsVars, upVars>>

\* =================================================================
\* SIEM workspace: the operations of hunting-queries.js
\* =================================================================

\* The fixed string stamped on everything the integration creates.
AttributionLabel == "huntsAPI"

Tagged(r) == AttributionLabel \in r.labels

\* Resources other tools left in the workspace: they lack the label.
ForeignQuery == [id |-> 0, labels |-> {}]
ForeignHunt == [id |-> 0, labels |-> {"manual"}]

Ids(S) == {r.id : r \in S}

\* Outcomes of the operations: what was thrown ("none": the call returned).
NoError == "none"
ValidationError == "ValidationError"
RemoteError == "RemoteError"

\* A mutant of NewSavedSearch: the payload goes out without the label.
NewSavedSearchUnstamped(id) == [id |-> id, labels |-> {}]

\* The SavedSearch payload of the Query Builder, stamped with the label.
NewSavedSearch(id) == [id |-> id, labels |-> {AttributionLabel}]

\* The Hunt payload of the Hunt Builder, stamped with the label.
NewHunt(id) == [id |-> id, labels |-> {AttributionLabel}]

\* The Relation payload of the Relation Linker, stamped with the label.
NewRelation(id, huntId, queryId) ==
  [id |-> id, hunt |-> huntId, query |-> queryId, labels |-> {AttributionLabel}]

\* Request bodies: which required fields are present.
QueryInputs == [name : BOOLEAN, query : BOOLEAN]
HuntInputs == [name : BOOLEAN]
BulkInputs == [name : BOOLEAN, query : BOOLEAN, huntName : BOOLEAN]

\* createQueryFromInput: name and query are required.
ValidQueryInput(body) == body.name /\ body.query

\* createSentinelHunt: name is required.
ValidHuntInput(body) == body.name

\* createHuntWithQuery: the query fields and huntName are required.
ValidBulkInput(body) == body.name /\ body.query /\ body.huntName

\* linkQueryToHunt bodies: huntId and queryResourceId are optional values; a
\* queryResourceId is a resource path, well-formed or not, naming a saved search.
\* The names tried are those in the workspace and one that is not (nextId).
Opt(S) == {None} \cup {Some(v) : v \in S}
ResourcePaths ==
  {[wellFormed |-> FALSE, id |-> 0]}
    \cup {[wellFormed |-> TRUE, id |-> i] : i \in Ids(savedSearches) \cup {nextId}}
LinkInputs ==
  [huntId : Opt(Ids(hunts) \cup {nextId}), queryResourceId : Opt(ResourcePaths)]

\* linkQueryToHunt: both fields are required and the path must be well-formed.
ValidLinkInput(body) ==
  /\ body.huntId # None
  /\ body.queryResourceId # None
  /\ body.queryResourceId[1].wellFormed

\* The remote service's referential validation of a Relation.
RelationTargetsExist(huntId, queryId) ==
  huntId \in Ids(hunts) /\ queryId \in Ids(savedSearches)

\* ----------------------------------------------------------------
\* Responses of the routes
\* ----------------------------------------------------------------
\* PurgeResultDetail: optional message (its count) and optional error.
Message(count) == [message |-> Some(count), error |-> None]
Failure(description) == [message |-> None, error |-> Some(description)]
NoDetail == [message |-> None, error |-> None]
NoResult == [queryCleanup |-> NoDetail, huntCleanup |-> NoDetail]

\* What a purge did: whether the workspace held nothing labelled when it ran,
\* whether each discovery call succeeded, the delete calls issued, the ones
\* that failed, and whether the run directly follows a purge that deleted
\* something and reported no error.
NoRun == [empty |-> FALSE, listedQ |-> FALSE, listedH |-> FALSE, deletes |-> {},
          failed |-> {}, repeat |-> FALSE]

Response(route, status, error, body) ==
  [route |-> route, status |-> status, error |-> error, body |-> body,
   result |-> NoResult, run |-> NoRun]

NoResponse == Response("none", 0, NoError, "none")

\* A mutant of CreateRouteResponse: a failed creation is answered 201.
CreateRouteResponseAlways201(route, error) == Response(route, 201, error, "resource")

\* The try/catch of the four creation routes: res.status(201).json(result), or
\* sendErrorResponse(res, error, 500, ...) whatever was thrown.
CreateRouteResponse(route, error) ==
  IF error = NoError THEN Response(route, 201, error, "resource")
                     ELSE Response(route, 500, error, "error")

\* ----------------------------------------------------------------
\* POST /api/hunting-queries
\* ----------------------------------------------------------------
PostHuntingQueries ==
  /\ \E body \in QueryInputs :
       IF ~ValidQueryInput(body)
       THEN /\ lastResp' = CreateRouteResponse("hunting-queries", ValidationError)
            /\ UNCHANGED <<savedSearches, nextId>>
       ELSE \E ok \in BOOLEAN :
       IF ok
       THEN /\ nextId <= MaxResources
            /\ savedSearches' = savedSearches \cup {NewSavedSearch(nextId)}
            /\ nextId' = nextId + 1
            /\ lastResp' = CreateRouteResponse("hunting-queries", NoError)
       ELSE /\ lastResp' = CreateRouteResponse("hunting-queries", RemoteError)
            /\ UNCHANGED <<savedSearches, nextId>>
  /\ UNCHANGED <<hunts, relations, bulk, dirVars, upVars>>

\* ----------------------------------------------------------------
\* POST /api/hunts
\* ----------------------------------------------------------------
PostHunts ==
  /\ \E body \in HuntInputs :
       IF ~ValidHuntInput(body)
       THEN /\ lastResp' = CreateRouteResponse("hunts", ValidationError)
            /\ UNCHANGED <<hunts, nextId>>
       ELSE \E ok \in BOOLEAN :
       IF ok
       THEN /\ nextId <= MaxResources
            /\ hunts' = hunts \cup {NewHunt(nextId)}
            /\ nextId' = nextId + 1
            /\ lastResp' = CreateRouteResponse("hunts", NoError)
       ELSE /\ lastResp' = CreateRouteResponse("hunts", RemoteError)
            /\ UNCHANGED <<hunts, nextId>>
  /\ UNCHANGED <<savedSearches, relations, bulk, dirVars, upVars>>

\* ----------------------------------------------------------------
\* POST /api/link-query
\* ----------------------------------------------------------------
PostLinkQuery ==
  /\ \E body \in LinkInputs :
       IF ~ValidLinkInput(body)
       THEN /\ lastResp' = CreateRouteResponse("link-query", ValidationError)
            /\ UNCHANGED <<relations, nextId>>
       ELSE \E ok \in BOOLEAN :
       IF ok /\ RelationTargetsExist(body.huntId[1], body.queryResourceId[1].id)
       THEN /\ nextId <= MaxResources
            /\ relations' = relations \cup
                 {NewRelation(nextId, body.huntId[1], body.queryResourceId[1].id)}
            /\ nextId' = nextId + 1
            /\ lastResp' = CreateRouteResponse("link-query", NoError)
       ELSE /\ lastResp' = CreateRouteResponse("link-query", RemoteError)
            /\ UNCHANGED <<relations, nextId>>
  /\ UNCHANGED <<savedSearches, hunts, bulk, dirVars, upVars>>

\* ----------------------------------------------------------------
\* POST /api/bulk-create-hunt: createHuntWithQuery, one step per remote call
\* ----------------------------------------------------------------
IdleBulk == [pc |-> "idle", queryId |-> 0, huntId |-> 0, calls |-> <<>>,
             failedAt |-> "none", resp |-> NoResponse]

BulkRespond(b, error, step) ==
  [b EXCEPT !.pc = "responded", !.failedAt = step,
            !.resp = CreateRouteResponse("bulk-create-hunt", error)]

\* Steps 1 and 2: validate, then create the SavedSearch.
BulkCreateQuery ==
  /\ bulk.pc \in {"idle", "responded"}
  /\ \E body \in BulkInputs :
       IF ~ValidBulkInput(body)
       THEN /\ bulk' = BulkRespond(IdleBulk, ValidationError, "validation")
            /\ UNCHANGED <<savedSearches, nextId>>
       ELSE LET b == [IdleBulk EXCEPT !.calls = <<"createSavedSearch">>] IN
            \E ok \in BOOLEAN :
            IF ok
            THEN /\ nextId <= MaxResources
                 /\ savedSearches' = savedSearches \cup {NewSavedSearch(nextId)}
                 /\ nextId' = nextId + 1
                 /\ bulk' = [b EXCEPT !.pc = "hunt", !.queryId = nextId]
            ELSE /\ bulk' = BulkRespond(b, RemoteError, "query")
                 /\ UNCHANGED <<savedSearches, nextId>>
  /\ UNCHANGED <<hunts, relations, lastResp, dirVars, upVars>>

\* Step 3: create the Hunt.
BulkCreateHunt ==
  /\ bulk.pc = "hunt"
  /\ LET b == [bulk EXCEPT !.calls = Append(@, "createHunt")] IN
     \E ok \in BOOLEAN :
       IF ok
       THEN /\ nextId <= MaxResources
            /\ hunts' = hunts \cup {NewHunt(nextId)}
            /\ nextId' = nextId + 1
            /\ bulk' = [b EXCEPT !.pc = "relation", !.huntId = nextId]
       ELSE /\ bulk' = BulkRespond(b, RemoteError, "hunt")
            /\ UNCHANGED <<hunts, nextId>>
  /\ UNCHANGED <<savedSearches, relations, lastResp, dirVars, upVars>>

\* Steps 4 and 5: create the Relation and return it.
BulkCreateRelation ==
  /\ bulk.pc = "relation"
  /\ LET b == [bulk EXCEPT !.calls = Append(@, "createRelation")] IN
     \E ok \in BOOLEAN :
       IF ok /\ RelationTargetsExist(bulk.huntId, bulk.queryId)
       THEN /\ nextId <= MaxResources
            /\ relations' = relations \cup {NewRelation(nextId, bulk.huntId, bulk.queryId)}
            /\ nextId' = nextId + 1
            /\ bulk' = BulkRespond(b, NoError, "none")
       ELSE /\ bulk' = BulkRespond(b, RemoteError, "relation")
            /\ UNCHANGED <<relations, nextId>>
  /\ UNCHANGED <<savedSearches, hunts, lastResp, dirVars, upVars>>

\* ----------------------------------------------------------------
\* DELETE /api/purge
\* ----------------------------------------------------------------
\* A mutant of Discovered: discovery lists every resource of the class.
DiscoveredAll(S) == S

\* Discovery: the resources of a class that carry the Attribution Label.
Discovered(S) == {r \in S : Tagged(r)}

\* The aggregate of one class: a success message with a count, or an error
\* when discovery or any deletion failed.
Aggregate(listed, targets, failed) ==
  IF ~listed THEN Failure("discovery failed")
  ELSE IF failed # {} THEN Failure("deletion failed")
  ELSE Message(Cardinality(targets))

\* A mutant of Deleted: the loop stops at the first deletion that fails.
DeletedFailFast(targets, failed) == IF failed = {} THEN targets ELSE {}

\* The deletion loop of one class is best-effort: a delete call goes out for
\* every target, and the targets whose call succeeded are gone.
Deleted(targets, failed) == targets \ failed

DeleteCalls(kind, targets) ==
  {[kind |-> kind, id |-> r.id, labels |-> r.labels] : r \in targets}

\* A mutant of PurgeStatus: 207 only when both aggregates carry an error.
PurgeStatusBoth(result) ==
  IF Truthy(result.queryCleanup.error) /\ Truthy(result.huntCleanup.error)
  THEN 207 ELSE 200

\* A mutant of PurgeStatus: only the query aggregate is looked at.
PurgeStatusQueryOnly(result) ==
  IF Truthy(result.queryCleanup.error) THEN 207 ELSE 200

\* A mutant of PurgeStatus: the branches are swapped.
PurgeStatusSwapped(result) ==
  IF Truthy(result.queryCleanup.error) \/ Truthy(result.huntCleanup.error)
  THEN 200 ELSE 207

\* result.queryCleanup?.error || result.huntCleanup?.error ? 207 : 200
PurgeStatus(result) ==
  IF Truthy(result.queryCleanup.error) \/ Truthy(result.huntCleanup.error)
  THEN 207 ELSE 200

\* The route: the status from the result, the result as the body.
PurgeResponse(result, run) ==
  [route |-> "purge", status |-> PurgeStatus(result), error |-> NoError,
   body |-> "purgeResult", result |-> result, run |-> run]

CleanPurge(resp) ==
  resp.route = "purge" /\ resp.status = 200 /\ resp.run.deletes # {}

\* purgeSentinel: both classes are discovered and deleted, each on its own;
\* every discovered resource gets a delete call, and any of them may fail.
Purge ==
  /\ \E listedQ \in BOOLEAN, listedH \in BOOLEAN :
       LET targetsQ == IF listedQ THEN Discovered(savedSearches) ELSE {}
           targetsH == IF listedH THEN Discovered(hunts) ELSE {}
       IN \E failedQ \in SUBSET targetsQ, failedH \in SUBSET targetsH :
            LET goneH == Ids(Deleted(targetsH, failedH)) IN
            /\ savedSearches' = savedSearches \ Deleted(targetsQ, failedQ)
            /\ hunts' = hunts \ Deleted(targetsH, failedH)
            /\ relations' = {r \in relations : r.hunt \notin goneH}
            /\ lastResp' = PurgeResponse(
                 [queryCleanup |-> Aggregate(listedQ, targetsQ, failedQ),
                  huntCleanup |-> Aggregate(listedH, targetsH, failedH)],
                 [empty |-> Discovered(savedSearches) = {} /\ Discovered(hunts) = {},
                  listedQ |-> listedQ, listedH |-> listedH,
                  deletes |-> DeleteCalls("savedSearch", targetsQ)
                                \cup DeleteCalls("hunt", targetsH),
                  failed |-> DeleteCalls("savedSearch", failedQ)
                               \cup DeleteCalls("hunt", failedH),
                  repeat |-> CleanPurge(lastResp)])
  /\ UNCHANGED <<nextId, bulk, dirVars, upVars>>

\* =================================================================
\* POST /api/hunting-queries/upload
\* =================================================================
UPLOADS_DIR == "uploads"
KQL_EXTENSION == <<".", "k", "q", "l">>

\* File names, as sequences of characters.
FileNames == { <<"q", ".", "k", "q", "l">>,
               <<"Q", ".", "K", "Q", "L">>,
               <<"q", ".", "t", "x", "t">>,
               <<"q", ".", "k", "q", "l", ".", "t", "x", "t">>,
               <<".", "k", "q", "l">>,
               <<"k", "q", "l">> }

\* String.prototype.toLowerCase on the characters in use.
LowerChar(c) ==
  CASE c = "K" -> "k" [] c = "Q" -> "q" [] c = "L" -> "l" [] OTHER -> c

toLowerCase(s) == [i \in 1..Len(s) |-> LowerChar(s[i])]

LastDot(name) ==
  LET dots == {i \in 1..Len(name) : name[i] = "."} IN
  IF dots = {} THEN 0 ELSE CHOOSE i \in dots : \A j \in dots : j <= i

\* path.extname: from the last "." on; empty when there is none or when the
\* only one is the first character of the name.
extname(name) ==
  LET i == LastDot(name) IN IF i <= 1 THEN <<>> ELSE SubSeq(name, i, Len(name))

\* multer's fileFilter: TRUE when the file is accepted.
fileFilter(originalname) == toLowerCase(extname(originalname)) = KQL_EXTENSION

ParseError == "ParseError"
UnlinkError == "UnlinkError"
FilterError == "FilterError"

IdleUp == [pc |-> "idle", path |-> 0, created |-> FALSE, unlinks |-> <<>>,
           status |-> 0, error |-> NoError, body |-> "none"]

UpRespond(u, status, error, body) ==
  [u EXCEPT !.pc = "responded", !.status = status, !.error = error, !.body = body]

\* upload.single('file') and the head of the route: no file is answered 400 by
\* the route; a file the filter rejects makes multer pass its Error to next(),
\* which Express' default error handler answers 500; an accepted file is staged.
UploadReceive ==
  /\ up.pc \in {"idle", "responded"}
  /\ \E file \in Opt(FileNames) :
       IF file = None
       THEN /\ up' = UpRespond(IdleUp, 400, NoError, "error")
            /\ UNCHANGED <<uploads, nextFile>>
       ELSE IF ~fileFilter(file[1])
       THEN /\ up' = UpRespond(IdleUp, 500, FilterError, "html")
            /\ UNCHANGED <<uploads, nextFile>>
       ELSE /\ nextFile <= MaxUploads
            /\ uploads' = uploads \cup {nextFile}
            /\ nextFile' = nextFile + 1
            /\ up' = [IdleUp EXCEPT !.pc = "create", !.path = nextFile]
  /\ UNCHANGED <<dirVars, wsVars>>

\* const result = await createQueryFromFile(req.file.path)
UploadCreate ==
  /\ up.pc = "create"
  /\ \E error \in {NoError, ParseError, RemoteError} :
       IF error = NoError
       THEN /\ nextId <= MaxResources
            /\ savedSearches' = savedSearches \cup {NewSavedSearch(nextId)}
            /\ nextId' = nextId + 1
            /\ up' = [up EXCEPT !.pc = "unlink", !.created = TRUE]
       ELSE /\ up' = [up EXCEPT !.pc = "catch", !.error = error]
            /\ UNCHANGED <<savedSearches, nextId>>
  /\ UNCHANGED <<hunts, relations, bulk, lastResp, uploads, nextFile, dirVars>>

\* fs.unlinkSync(req.file.path); res.status(201).json(result)
UploadUnlink ==
  /\ up.pc = "unlink"
  /\ \E ok \in BOOLEAN :
       LET u == [up EXCEPT !.unlinks = Append(@, ok)] IN
       IF ok
       THEN /\ uploads' = uploads \ {up.path}
            /\ up' = UpRespond(u, 201, NoError, "resource")
       ELSE /\ up' = [u EXCEPT !.pc = "catch", !.error = UnlinkError]
            /\ UNCHANGED uploads
  /\ UNCHANGED <<nextFile, dirVars, wsVars>>

\* A mutant of UploadCatch: the catch block answers without any cleanup.
UploadCatchNoCleanup ==
  /\ up.pc = "catch"
  /\ up' = UpRespond(up, 500, up.error, "error")
  /\ UNCHANGED <<uploads, nextFile, dirVars, wsVars>>

\* The catch block: unlink the file if it exists, swallow a failure of that,
\* then sendErrorResponse(res, error, 500, context).
UploadCatch ==
  /\ up.pc = "catch"
  /\ IF up.path \in uploads
     THEN \E ok \in BOOLEAN :
            /\ uploads' = IF ok THEN uploads \ {up.path} ELSE uploads
            /\ up' = UpRespond([up EXCEPT !.unlinks = Append(@, ok)], 500, up.error, "error")
     ELSE /\ up' = UpRespond(up, 500, up.error, "error")
          /\ UNCHANGED uploads
  /\ UNCHANGED <<nextFile, dirVars, wsVars>>

\* =================================================================
\* Specifications
\* =================================================================
ForeignWorkspaces == {<<{}, {}>>, <<{ForeignQuery}, {ForeignHunt}>>}

Init ==
  /\ applications = <<>>
  /\ reg = IdleReg
  /\ perm = [c \in Callers |-> IdlePerm]
  /\ \E w \in ForeignWorkspaces : savedSearches = w[1] /\ hunts = w[2]
  /\ relations = {}
  /\ nextId = 1
  /\ bulk = IdleBulk
  /\ lastResp = NoResponse
  /\ uploads = {}
  /\ nextFile = 1
  /\ up = IdleUp

\* The routes are grouped by the state they share: requests of one group
\* interleave at every remote call; the groups share no state but the saved
\* searches an upload adds.

\* The workspace routes.
Next ==
  \/ PostHuntingQueries \/ PostHunts \/ PostLinkQuery
  \/ BulkCreateQuery \/ BulkCreateHunt \/ BulkCreateRelation
  \/ Purge

Spec == Init /\ [][Next]_vars

\* The registration route.
NextRegister == RegRegister \/ RegGet \/ RegPatch

SpecRegister == Init /\ [][NextRegister]_vars

\* The upload route.
NextUpload == UploadReceive \/ UploadCreate \/ UploadUnlink \/ UploadCatch

SpecUpload == Init /\ [][NextUpload]_vars

\* The creation operations and the purge that cleans up after them.  The
\* workspace routes and the upload route share nothing but the saved searches
\* they add, so a run exercises one group or the other.
NextCreate ==
  \/ up = IdleUp /\ Next
  \/ bulk = IdleBulk /\ lastResp = NoResponse /\ NextUpload

SpecCreate == Init /\ [][NextCreate]_vars

\* addApiPermissions on an Application in any state, by concurrent callers.
ApplicationStates ==
  [displayName : {DEFAULT_APP_NAME},
   requiredResourceAccess : Opt(SeqsUpTo(Entries, MaxEntries))]

InitPerm ==
  /\ \E app \in ApplicationStates : applications = <<app>>
  /\ reg = IdleReg
  /\ perm = [c \in Callers |-> IdlePerm]
  /\ savedSearches = {} /\ hunts = {} /\ relations = {}
  /\ nextId = 1
  /\ bulk = IdleBulk
  /\ lastResp = NoResponse
  /\ uploads = {}
  /\ nextFile = 1
  /\ up = IdleUp

NextPerm == \E c \in Callers : PermGet(c) \/ PermPatch(c)

SpecPerm == InitPerm /\ [][NextPerm]_vars

\* =================================================================
\* Properties
\* =================================================================
HasError(detail) == detail.error # None
HasMessage(detail) == detail.message # None

PurgeAnswered == lastResp.route = "purge"

\* C1: DELETE /purge answers 207 exactly when queryCleanup or huntCleanup of
\* the result carries an error, and 200 otherwise; the body is the result.
C1_PurgeStatusIffError ==
  PurgeAnswered =>
    /\ lastResp.status \in {200, 207}
    /\ lastResp.status = 207 <=>
         (HasError(lastResp.result.queryCleanup) \/ HasError(lastResp.result.huntCleanup))
    /\ lastResp.body = "purgeResult"

\* C1 witness: a purge answered 207 with exactly one aggregate in error.
C1_Witness ==
  /\ PurgeAnswered
  /\ lastResp.status = 207
  /\ HasError(lastResp.result.huntCleanup)
  /\ ~HasError(lastResp.result.queryCleanup)

\* The paths of a purge, from what the remote calls did.
QueryPathFailed(run) ==
  ~run.listedQ \/ \E d \in run.failed : d.kind = "savedSearch"
HuntPathFailed(run) ==
  ~run.listedH \/ \E d \in run.failed : d.kind = "hunt"

\* C4: the two aggregates are independent: a failed query path with a
\* successful hunt path gives queryCleanup.error, huntCleanup.message (the
\* hunt deletions were issued) and 207; and the other way round.
C4_AggregatesIndependent ==
  PurgeAnswered =>
    LET run == lastResp.run
        qc == lastResp.result.queryCleanup
        hc == lastResp.result.huntCleanup
    IN /\ (QueryPathFailed(run) /\ ~HuntPathFailed(run)) =>
            /\ HasError(qc) /\ ~HasMessage(qc)
            /\ HasMessage(hc) /\ ~HasError(hc)
            /\ hc.message[1] = Cardinality({d \in run.deletes : d.kind = "hunt"})
            /\ lastResp.status = 207
       /\ (HuntPathFailed(run) /\ ~QueryPathFailed(run)) =>
            /\ HasError(hc) /\ ~HasMessage(hc)
            /\ HasMessage(qc) /\ ~HasError(qc)
            /\ qc.message[1] = Cardinality({d \in run.deletes : d.kind = "savedSearch"})
            /\ lastResp.status = 207

\* C4 witness: the query path failed on a deletion, and a hunt was deleted.
C4_Witness ==
  /\ PurgeAnswered
  /\ \E d \in lastResp.run.failed : d.kind = "savedSearch"
  /\ ~HuntPathFailed(lastResp.run)
  /\ \E d \in lastResp.run.deletes : d.kind = "hunt"

Untagged(S) == {r \in S : ~Tagged(r)}

\* A step of the purge route: it is the one route that answers as "purge",
\* and a purge that repeats the answer before it changes nothing.
PurgeStep == lastResp'.route = "purge" /\ lastResp' # lastResp

\* C5: a purge issues delete calls only for resources carrying the
\* Attribution Label, and leaves every saved search and hunt lacking it as it was.
C5_PurgeOnlyLabelled ==
  [][PurgeStep =>
       /\ \A d \in lastResp'.run.deletes : AttributionLabel \in d.labels
       /\ Untagged(savedSearches') = Untagged(savedSearches)
       /\ Untagged(hunts') = Untagged(hunts)]_vars

\* C5 witness: a purge that issued deletes in a workspace holding foreign resources.
C5_Witness ==
  /\ PurgeAnswered
  /\ lastResp.run.deletes # {}
  /\ ForeignQuery \in savedSearches
  /\ ForeignHunt \in hunts

ZeroCountSuccess(resp) ==
  /\ resp.run.deletes = {}
  /\ resp.result.queryCleanup = Message(0)
  /\ resp.result.huntCleanup = Message(0)
  /\ resp.status = 200

\* C10 as stated: a purge of a workspace with nothing labelled issues no
\* delete call and answers 200 with two zero-count success messages.
C10_Original == (PurgeAnswered /\ lastResp.run.empty) => ZeroCountSuccess(lastResp)

\* C10 amended: a purge of a workspace with nothing labelled issues no delete
\* call; when both discovery calls succeed it answers 200 with two zero-count
\* success messages, and an aggregate whose discovery call failed carries an
\* error, which makes the answer 207.
C10_EmptyPurge ==
  (PurgeAnswered /\ lastResp.run.empty) =>
    LET run == lastResp.run IN
    /\ run.deletes = {}
    /\ (run.listedQ /\ run.listedH) => ZeroCountSuccess(lastResp)
    /\ ~(run.listedQ /\ run.listedH) => lastResp.status = 207
    /\ lastResp.result.queryCleanup =
         (IF run.listedQ THEN Message(0) ELSE Failure("discovery failed"))
    /\ lastResp.result.huntCleanup =
         (IF run.listedH THEN Message(0) ELSE Failure("discovery failed"))

\* C10 witness: a zero-count purge answered right after the answer of a purge
\* that deleted something and reported no error.
C10_Witness ==
  /\ PurgeAnswered
  /\ lastResp.run.empty
  /\ lastResp.run.repeat
  /\ ZeroCountSuccess(lastResp)

BulkOrder == <<"createSavedSearch", "createHunt", "createRelation">>

\* C3: createHuntWithQuery issues its remote creations in the order
\* SavedSearch, Hunt, Relation, each only after the previous one succeeded;
\* when the Hunt creation fails no Relation creation is issued, the failing
\* step leaves the SavedSearch of the previous step and the relations as they
\* were, and the caller gets an error response.
C3_BulkSequential ==
  [][/\ IsPrefix(bulk'.calls, BulkOrder)
     /\ Len(bulk'.calls) >= 2 => bulk'.queryId # 0
     /\ Len(bulk'.calls) >= 3 => bulk'.huntId # 0
     /\ bulk'.failedAt = "hunt" =>
          /\ bulk'.calls = <<"createSavedSearch", "createHunt">>
          /\ bulk'.pc = "responded"
          /\ bulk'.resp.status = 500
          /\ bulk'.resp.body = "error"
     /\ (bulk.pc = "hunt" /\ bulk'.pc = "responded") =>
          /\ bulk'.failedAt = "hunt"
          /\ savedSearches' = savedSearches
          /\ relations' = relations
          /\ hunts' = hunts]_vars

\* C3 witness: the Hunt creation failed and the SavedSearch is in the workspace.
C3_Witness ==
  /\ bulk.failedAt = "hunt"
  /\ bulk.queryId \in Ids(Discovered(savedSearches))
  /\ \A r \in relations : r.query # bulk.queryId

Responses == {lastResp, bulk.resp}

\* C6: a request missing a required field is answered 400 with an error
\* body, and 500 is used only for remote or internal failures.
C6_ValidationAnswered400 ==
  \A resp \in Responses :
    /\ resp.error = ValidationError => (resp.status = 400 /\ resp.body = "error")
    /\ resp.status = 500 => resp.error = RemoteError

\* C9: in the registration flow 201 is sent exactly when both steps
\* succeeded; when step 2 fails after step 1 the Application of step 1 is
\* still there with its baseline entry alone, no call other than the POST,
\* GET and PATCH was issued, and the answer is 500.
C9_NoRollback ==
  reg.pc = "responded" =>
    /\ reg.status \in {201, 500}
    /\ reg.status = 201 <=>
         /\ reg.calls = <<"POST", "GET", "PATCH">>
         /\ reg.objectId \in 1..Len(applications)
         /\ applications[reg.objectId].requiredResourceAccess
              = Some(BaselineAccess \o managementPermissions)
    /\ (reg.objectId # 0 /\ reg.status # 201) =>
         /\ reg.status = 500
         /\ reg.objectId \in 1..Len(applications)
         /\ applications[reg.objectId].requiredResourceAccess = Some(BaselineAccess)
         /\ Range(reg.calls) \subseteq {"POST", "GET", "PATCH"}
         /\ reg.calls \in {<<"POST", "GET">>, <<"POST", "GET", "PATCH">>}

\* C9 witness: the PATCH of step 2 failed after step 1 registered the Application.
C9_Witness ==
  /\ reg.pc = "responded"
  /\ reg.status = 500
  /\ reg.calls = <<"POST", "GET", "PATCH">>
  /\ applications[reg.objectId].requiredResourceAccess = Some(BaselineAccess)

ReadAccess(app) ==
  IF app.requiredResourceAccess = None THEN <<>> ELSE app.requiredResourceAccess[1]

\* C2: a successful addSentinelPermissions writes back every entry the
\* Application held when it was read, in place and in order, followed by
\* the SIEM-management scope entry: nothing is removed or replaced.
C2_Additive ==
  [][\A c \in Callers :
       (perm[c].pc = "patch" /\ perm'[c].pc = "done") =>
         LET read == ReadAccess(perm[c].app[1])
             written == applications'[1].requiredResourceAccess
         IN /\ written # None
            /\ IsPrefix(read, written[1])
            /\ Len(written[1]) = Len(read) + 1
            /\ c = 1 => written[1][Len(written[1])] = ManagementScope]_vars

\* C2 witness: addSentinelPermissions succeeded on an Application that held
\* unrelated entries, and what it wrote is the Application's state.
C2_Witness ==
  /\ perm[1].pc = "done"
  /\ OtherScope \in Range(ReadAccess(perm[1].app[1]))
  /\ GraphUserRead \in Range(ReadAccess(perm[1].app[1]))
  /\ applications[1].requiredResourceAccess = perm[1].written

Staged(u) == u.path # 0

\* C7 as stated: once the response is sent, a file that was staged no
\* longer exists.
C7_Original == (up.pc = "responded" /\ Staged(up)) => up.path \notin uploads

\* C7 amended: on every path on which a file was staged the route tries to
\* delete it before responding, at most twice; once the response is sent the
\* file exists exactly when the last attempt failed, and then the answer is 500.
C7_CleanupAttempted ==
  (up.pc = "responded" /\ Staged(up)) =>
    /\ Len(up.unlinks) \in {1, 2}
    /\ up.path \in uploads <=> ~up.unlinks[Len(up.unlinks)]
    /\ up.path \in uploads => up.status = 500
    /\ up.status = 201 <=> (up.created /\ up.unlinks = <<TRUE>>)

\* C7 witness: the first deletion failed and the one in the catch block succeeded.
C7_Witness ==
  /\ up.pc = "responded"
  /\ up.unlinks = <<FALSE, TRUE>>
  /\ up.path \notin uploads

\* C8: an upload with no file, or with a file whose extension is not .kql,
\* is answered 400, and createQueryFromFile is not called.
C8_RejectedAnswered400 ==
  (up.pc = "responded" /\ ~Staged(up)) => (up.status = 400 /\ ~up.created)

ReadLen(c) == Len(ReadAccess(perm[c].app[1]))

AllDone == \A c \in Callers : perm[c].pc = "done"

NoOverlap == \A c \in Callers : ~perm[c].overlapped

FinalAccess == applications[1].requiredResourceAccess[1]

\* The length of the Application's entries before any call wrote.
FirstReadLen == CHOOSE n \in {ReadLen(c) : c \in Callers} :
                  \A c \in Callers : n <= ReadLen(c)

\* C11: the permission update is a read-modify-write without compare-and-swap.
\* When every call succeeded and no call read while another was between its
\* read and its write, the Application ends with what each call read followed
\* by that call's entry: every appended entry is there.  When two calls read
\* the same state and both wrote, fewer entries were appended than calls
\* succeeded: an update is lost.
C11_RaceLosesUpdate ==
  AllDone =>
    /\ NoOverlap =>
         /\ Len(FinalAccess) = FirstReadLen + NumCallers
         /\ \A c \in Callers :
              /\ IsPrefix(ReadAccess(perm[c].app[1]), FinalAccess)
              /\ FinalAccess[ReadLen(c) + 1] = PermissionsOf(c)[1]
    /\ (\E c, d \in Callers : c # d /\ ReadLen(c) = ReadLen(d)) =>
         Len(FinalAccess) < FirstReadLen + NumCallers

\* C11 witness: callers 1 and 2 both read before either wrote, both wrote,
\* and the entry caller 1 appended is not in the Application.
C11_Witness ==
  /\ perm[1].pc = "done" /\ perm[2].pc = "done"
  /\ perm[1].app = perm[2].app
  /\ perm[1].overlapped \/ perm[2].overlapped
  /\ ManagementScope \notin Range(FinalAccess)
  /\ OtherScope \in Range(FinalAccess)

\* The calls ran one after the other and both entries are in the Application.
C11_SequentialWitness ==
  /\ AllDone /\ NoOverlap
  /\ ManagementScope \notin Range(ReadAccess(perm[1].app[1]))
  /\ OtherScope \notin Range(ReadAccess(perm[2].app[1]))
  /\ {ManagementScope, OtherScope} \subseteq Range(FinalAccess)

Call(kind, r) == [kind |-> kind, id |-> r.id, labels |-> r.labels]

FailedIn(run, kind) == {d \in run.failed : d.kind = kind}

\* Best effort in one class: with a failed deletion in it, every labelled
\* resource of the class got its delete call, the ones whose call did not fail
\* are gone, the others remain, and the aggregate is an error.
BestEffort(kind, before, after, run, detail) ==
  FailedIn(run, kind) # {} =>
    /\ \A r \in Discovered(before) : Call(kind, r) \in run.deletes
    /\ \A r \in Discovered(before) :
         IF Call(kind, r) \in run.failed THEN r \in after ELSE r \notin after
    /\ HasError(detail) /\ ~HasMessage(detail)

\* C12: within one class a purge is best-effort: when the deletion of one
\* labelled resource fails, the others discovered in the class still get
\* their delete call, and the class's aggregate is an error, not a message.
C12_BestEffortDeletion ==
  [][PurgeStep =>
       /\ BestEffort("savedSearch", savedSearches, savedSearches',
                     lastResp'.run, lastResp'.result.queryCleanup)
       /\ BestEffort("hunt", hunts, hunts',
                     lastResp'.run, lastResp'.result.huntCleanup)]_vars

\* C12 witness: one saved-search deletion failed, another one went through.
C12_Witness ==
  /\ PurgeAnswered
  /\ FailedIn(lastResp.run, "savedSearch") # {}
  /\ \E d \in lastResp.run.deletes :
       /\ d.kind = "savedSearch"
       /\ d \notin lastResp.run.failed
       /\ d.id \notin Ids(savedSearches)
  /\ HasError(lastResp.result.queryCleanup)

\* Resources other tools created have name 0; the integration's start at 1.
CreatedHere(r) == r.id >= 1

\* C13: whatever creation operations ran, and wherever they failed, every
\* SavedSearch, Hunt and Relation the integration created carries the
\* Attribution Label; so what a failed bulk create left behind is, while it
\* exists, among what purge discovers.
C13_CreatedCarryLabel ==
  /\ \A r \in savedSearches : CreatedHere(r) => Tagged(r)
  /\ \A r \in hunts : CreatedHere(r) => Tagged(r)
  /\ \A r \in relations : CreatedHere(r) => Tagged(r)
  /\ bulk.failedAt \in {"hunt", "relation"} =>
       (bulk.queryId \in Ids(savedSearches) =>
          bulk.queryId \in Ids(Discovered(savedSearches)))
  /\ bulk.failedAt = "relation" =>
       (bulk.huntId \in Ids(hunts) => bulk.huntId \in Ids(Discovered(hunts)))

\* C13 witness: a bulk create failed at the Relation, and the SavedSearch
\* and the Hunt it left are both discovered.
C13_Witness ==
  /\ bulk.failedAt = "relation"
  /\ bulk.queryId \in Ids(Discovered(savedSearches))
  /\ bulk.huntId \in Ids(Discovered(hunts))

\* A file upload created a SavedSearch, and it is discovered.
C13_UploadWitness ==
  /\ up.created
  /\ Discovered(savedSearches) # {}

====
